---- MODULE Spec2Model ----
(***************************************************************************)
(* Model of src/fetchData.py: the DV360DataFetcher class.  Each method is  *)
(* a sequential program: `op` names the method in progress, `pc` its       *)
(* position, `ret` its return value.  The remote services (reporting API,  *)
(* spreadsheet API, OAuth provider, file system) answer each call with a   *)
(* nondeterministically chosen outcome; every call issued is appended to   *)
(* `calls`.                                                                *)
(***************************************************************************)
EXTENDS Integers, Sequences, FiniteSets, TLC

VARIABLES
    op,             \* method in progress: "none" before the call
    pc,             \* position inside the method
    ret,            \* "unset" | "True" | "False" | "None" | "df" | a query id,
                    \* or "raised" when an exception leaves the method
    calls,          \* remote calls and sleeps issued so far, in order
    \* ---- wait_for_report / get_report_data
    query_id,       \* argument query_id
    attempts,       \* local `attempts` of wait_for_report
    statusLog,      \* answers of queries().get() received so far
    max_retries,    \* argument max_retries of get_report_data
    wait_time,      \* argument wait_time of get_report_data
    retries,        \* local `retries` of get_report_data
    listLog,        \* class of each reports().list() answer received so far
    listing,        \* the latest reports().list() answer, in full
    df,             \* DataFrame returned by get_report_data (when ret = "df")
    \* ---- update_sheet
    sheet_name,     \* argument sheet_name
    data,           \* argument data (a DataFrame)
    doc,            \* the remote spreadsheet: sheet title -> cells
    docBefore,      \* the remote spreadsheet when update_sheet was called
    \* ---- authenticate
    credentials_path, \* self.credentials_path: a path, or "None"
    creds,          \* self.creds: NoCreds (None) or a credential
    dbm_service,    \* self.dbm_service: "unset" | "built"
    sheets_service, \* self.sheets_service: "unset" | "built"
    tokenFile,      \* content of token.pickle
    tokenBefore,    \* content of token.pickle when authenticate was called
    \* ---- create_query / fetch_report
    advertiser_id,  \* argument advertiser_id of create_query
    response,       \* create_query: the answer of queries().create()
    report_url,     \* fetch_report: googleCloudStoragePathForLatestReport, or "None"
    reportFile,     \* content of campaign_report.csv
    \* ---- main
    mpc,            \* position inside main: "off" when a method is called directly
    environ,        \* the configuration variables that are set in the environment
    steps           \* the steps main has invoked, each with its result

vars == <<op, pc, ret, calls, query_id, attempts, statusLog, max_retries,
          wait_time, retries, listLog, listing, df, sheet_name, data, doc, docBefore,
          credentials_path, creds, dbm_service, sheets_service, tokenFile,
          tokenBefore, advertiser_id, response, report_url, reportFile, mpc,
          environ, steps>>

pollVars  == <<query_id, attempts, statusLog, max_retries, wait_time, retries,
               listLog, listing, df>>
sheetVars == <<sheet_name, data, doc, docBefore>>
authVars  == <<credentials_path, creds, dbm_service, sheets_service, tokenFile,
               tokenBefore>>
jobVars   == <<advertiser_id, response, report_url, reportFile>>
mainVars  == <<mpc, environ, steps>>

----------------------------------------------------------------------------
(* Helpers *)

RECURSIVE CountApi(_, _)
CountApi(s, api) ==
    IF s = << >> THEN 0
    ELSE (IF Head(s).api = api THEN 1 ELSE 0) + CountApi(Tail(s), api)

ApiSeq(s) == [i \in 1..Len(s) |-> s[i].api]

\* A call record; `arg` is always a record so that calls stay comparable.
Call(api, arg) == [api |-> api, arg |-> arg]

EmptyFrame == [columns |-> << >>, rows |-> << >>]
\* A credential: token (0 for None), expired, refresh_token present.  `kind`
\* tells a credential from None (self.creds) and from a missing or unreadable
\* file (token.pickle).
Blank == [token |-> 0, expired |-> FALSE, refresh_token |-> FALSE]
NoCreds == [kind |-> "None", c |-> Blank]
NoFile == [kind |-> "absent", c |-> Blank]
CorruptFile == [kind |-> "corrupt", c |-> Blank]
Held(c) == [kind |-> "creds", c |-> c]

NoDoc == [t \in {} |-> << >>]
NoResponse == [kind |-> "none", queryId |-> "None"]

\* The configuration variables main reads with os.getenv.
ConfigNames == {"CREDENTIALS_PATH", "SPREADSHEET_ID", "ADVERTISER_ID", "SHEET_NAME"}
NoListing == [kind |-> "none", reports |-> << >>, fetched |-> "none"]

----------------------------------------------------------------------------
(* Inputs *)

QueryIds == {"1356166266", "q2"}

\* Longest report list a listing answer carries.
MaxReports == 2

\* Values of max_retries and wait_time a caller passes (the defaults among them).
\* Most data rows of a frame passed to update_sheet.
MaxRows == 2

RetryArgs == {-1, 0, 2}
WaitArgs == {0}

\* Neutral values of the variables an operation does not use.
PollIdle ==
    /\ query_id = "none" /\ attempts = 0 /\ statusLog = << >>
    /\ max_retries = 0 /\ wait_time = 0 /\ retries = 0 /\ listLog = << >>
    /\ listing = NoListing /\ df = EmptyFrame
SheetIdle ==
    /\ sheet_name = "none" /\ data = EmptyFrame
    /\ doc = NoDoc /\ docBefore = NoDoc
AuthIdle ==
    /\ credentials_path = "credentials.json"
    /\ creds = NoCreds /\ dbm_service = "unset" /\ sheets_service = "unset"
    /\ tokenFile = NoFile /\ tokenBefore = NoFile
JobIdle ==
    /\ advertiser_id = "none" /\ response = NoResponse
    /\ report_url = "None" /\ reportFile = "absent"
MainIdle == mpc = "off" /\ environ = ConfigNames /\ steps = << >>
CtlIdle ==
    /\ op = "none" /\ pc = "idle" /\ ret = "unset" /\ calls = << >>
    /\ JobIdle /\ MainIdle

----------------------------------------------------------------------------
(* wait_for_report, src/fetchData.py:160-184 *)

max_attempts_short == 10 - 1
max_attempts == 10

PollSleepSeconds == 30

\* What queries().get(queryId).execute() can answer: it raises, or returns a
\* query resource whose metadata.running is true, false or missing, or that
\* has no metadata at all.
StatusAnswers == {"raise", "no_metadata", "no_flag", "running_false", "running_true"}

\* query.get('metadata', {}).get('running', False)
RunningFlagInverted(q) == q = "running_false"
RunningFlag(q) == q = "running_true"

WaitCall ==
    /\ op = "none" /\ pc = "idle"
    /\ \E q \in QueryIds : query_id' = q
    /\ op' = "wait_for_report"
    /\ attempts' = 0
    /\ pc' = "w_loop"
    /\ UNCHANGED <<jobVars, mainVars, ret, calls, statusLog, max_retries, wait_time, retries,
                   listLog, listing, df, sheetVars, authVars>>

\* while attempts < max_attempts: ... ; falling out of the loop returns False
WaitLoop ==
    /\ op = "wait_for_report" /\ pc = "w_loop"
    /\ IF attempts < max_attempts
          THEN pc' = "w_query" /\ ret' = ret
          ELSE pc' = "done" /\ ret' = "False"
    /\ UNCHANGED <<jobVars, mainVars, op, calls, pollVars, sheetVars, authVars>>

\* WaitQuery with a raised query consumed as a retry (not what the code does).
WaitQueryRetryOnRaise ==
    /\ op = "wait_for_report" /\ pc = "w_query"
    /\ \E a \in StatusAnswers :
          /\ statusLog' = Append(statusLog, a)
          /\ calls' = Append(calls, Call("queries.get", [n |-> 0]))
          /\ IF a # "raise" /\ ~RunningFlag(a)
                THEN pc' = "done" /\ ret' = "True"
                ELSE pc' = "w_sleep" /\ ret' = ret
    /\ UNCHANGED <<jobVars, mainVars, op, query_id, attempts, max_retries, wait_time, retries,
                   listLog, listing, df, sheetVars, authVars>>

\* the status query and the test of its answer (lines 166-173, 179-181)
WaitQuery ==
    /\ op = "wait_for_report" /\ pc = "w_query"
    /\ \E a \in StatusAnswers :
          /\ statusLog' = Append(statusLog, a)
          /\ calls' = Append(calls, Call("queries.get", [n |-> 0]))
          /\ IF a = "raise"
                THEN pc' = "done" /\ ret' = "False"
                ELSE IF ~RunningFlag(a)
                        THEN pc' = "done" /\ ret' = "True"
                        ELSE pc' = "w_sleep" /\ ret' = ret
    /\ UNCHANGED <<jobVars, mainVars, op, query_id, attempts, max_retries, wait_time, retries,
                   listLog, listing, df, sheetVars, authVars>>

\* time.sleep(30); attempts += 1
WaitSleep ==
    /\ op = "wait_for_report" /\ pc = "w_sleep"
    /\ calls' = Append(calls, Call("sleep", [n |-> PollSleepSeconds]))
    /\ attempts' = attempts + 1
    /\ pc' = "w_loop"
    /\ UNCHANGED <<jobVars, mainVars, op, ret, query_id, statusLog, max_retries, wait_time,
                   retries, listLog, listing, df, sheetVars,
                   authVars>>

InitWait == CtlIdle /\ PollIdle /\ SheetIdle /\ AuthIdle

NextWait == WaitCall \/ WaitLoop \/ WaitQuery \/ WaitSleep

SpecWait == InitWait /\ [][NextWait]_vars

WaitDone == op = "wait_for_report" /\ pc = "done"
NumQueries == CountApi(calls, "queries.get")
NumSleeps == CountApi(calls, "sleep")

\* The answers received so far are what a status source gives that reports
\* running=true on its first n-1 queries and running=false on query n.
FollowsReadyAt(n) ==
    /\ Len(statusLog) <= n
    /\ \A i \in 1..Len(statusLog) :
          statusLog[i] = (IF i < n THEN "running_true" ELSE "running_false")

\* The answers received so far are all running=true.
FollowsAlwaysRunning ==
    \A i \in 1..Len(statusLog) : statusLog[i] = "running_true"

\* C1: against a status source that reports running=true on the first N-1
\* queries and running=false on query N (1 <= N <= 10, no query raising),
\* wait_for_report returns only once query N has been made, returns True,
\* has then made exactly N queries and N-1 sleeps, and can make no further
\* query.
C1_ReadyAfterNQueries ==
    \A N \in 1..10 :
        (FollowsReadyAt(N) /\ WaitDone) =>
            /\ ret = "True"
            /\ Len(statusLog) = N
            /\ NumQueries = N
            /\ NumSleeps = N - 1
            /\ ~ENABLED WaitQuery

C1_Witness ==
    /\ WaitDone /\ FollowsReadyAt(10) /\ Len(statusLog) = 10
    /\ ret = "True" /\ NumSleeps = 9

\* C2: against a status source that reports running=true on every query and
\* never raises, wait_for_report never makes an 11th query, returns only
\* after the 10th, and returns False.
C2_TimeoutAfterTenQueries ==
    FollowsAlwaysRunning =>
        /\ NumQueries <= 10
        /\ WaitDone => (ret = "False" /\ NumQueries = 10 /\ ~ENABLED WaitQuery)

C2_Witness ==
    /\ WaitDone /\ FollowsAlwaysRunning /\ NumQueries = 10 /\ ret = "False"

----------------------------------------------------------------------------
(* get_report_data, src/fetchData.py:218-266 *)

DefaultMaxRetries == 5
DefaultWaitTime == 30

\* A listed report: without metadata, with metadata but no
\* googleCloudStoragePath, or with a path.
StoragePaths == {"gs_a", "gs_b"}
Reports == {"no_metadata", "no_path"} \cup StoragePaths

ReportLists == UNION {[1..n -> Reports] : n \in 0..MaxReports}

\* What queries().reports().list(queryId).execute() can answer: it raises
\* HttpError or another exception, or returns a response with or without a
\* 'reports' key.
ListAnswers ==
    {[kind |-> k, reports |-> << >>] : k \in {"http_error", "error", "no_key"}}
        \cup {[kind |-> "ok", reports |-> r] : r \in ReportLists}

\* not response.get('reports')
NoReports(a) == a.kind = "no_key" \/ a.reports = << >>

\* The first-listed report (not what the code takes).
LatestReportFirst(a) == a.reports[1]

\* latest_report = response['reports'][-1]
LatestReport(a) == a.reports[Len(a.reports)]

\* 'metadata' in latest_report and 'googleCloudStoragePath' in latest_report['metadata']
HasStoragePath(r) == r \in StoragePaths

\* The CSV text stored at each path, as lines of cells.
CsvAt(url) ==
    CASE url = "gs_a" -> << <<"date", "clicks">>, <<"2024-01-01", "5">>,
                            <<"2024-01-02", "7">> >>
      [] url = "gs_b" -> << <<"name">>, <<"x">> >>

NumericTexts == {"5", "7"}

\* pd.read_csv: the first line names the columns, the other lines are the
\* rows; a column whose cells are all numeric is read as int64, any other
\* as object (text).
read_csv_headerless(csv) ==
    [columns |-> [j \in 1..Len(csv[1]) |-> "unnamed"],
     rows |-> [i \in 1..Len(csv) |->
                [j \in 1..Len(csv[1]) |-> [dtype |-> "object", text |-> csv[i][j]]]]]
ColumnDtype(csv, j) ==
    IF \A i \in 2..Len(csv) : csv[i][j] \in NumericTexts
       THEN "int64" ELSE "object"
read_csv(csv) ==
    [columns |-> csv[1],
     rows |-> [i \in 1..(Len(csv) - 1) |->
                [j \in 1..Len(csv[1]) |->
                    [dtype |-> ColumnDtype(csv, j), text |-> csv[i + 1][j]]]]]

\* How the log records an answer: an error (HttpError or any other), an
\* empty listing, or a listing of reports.
AnswerClass(a) ==
    CASE a.kind \in {"http_error", "error"} -> "error"
      [] NoReports(a) -> "empty"
      [] OTHER -> "listed"

GetCall ==
    /\ op = "none" /\ pc = "idle"
    /\ \E q \in QueryIds : query_id' = q
    /\ \E m \in RetryArgs \cup {DefaultMaxRetries} : max_retries' = m
    /\ \E w \in WaitArgs \cup {DefaultWaitTime} : wait_time' = w
    /\ op' = "get_report_data"
    /\ retries' = 0
    /\ pc' = "g_loop"
    /\ UNCHANGED <<jobVars, mainVars, ret, calls, attempts, statusLog, listLog, listing, df,
                   sheetVars, authVars>>

\* while retries < max_retries
MayRetryInclusive(r, m) == r <= m
MayRetry(r, m) == r < m

\* the loop test; falling out of the loop returns None
GetLoop ==
    /\ op = "get_report_data" /\ pc = "g_loop"
    /\ IF MayRetry(retries, max_retries)
          THEN pc' = "g_list" /\ ret' = ret
          ELSE pc' = "done" /\ ret' = "None"
    /\ UNCHANGED <<jobVars, mainVars, op, calls, pollVars, sheetVars, authVars>>

\* the listing call and the inspection of its answer (lines 230-243, 248-249,
\* 252-254, 256-258)
GetList ==
    /\ op = "get_report_data" /\ pc = "g_list"
    /\ \E a \in ListAnswers :
          /\ listLog' = Append(listLog, AnswerClass(a))
          /\ listing' = [kind |-> a.kind, reports |-> a.reports, fetched |-> "none"]
          /\ calls' = Append(calls, Call("reports.list", [n |-> 0]))
          /\ IF a.kind \in {"http_error", "error"} \/ NoReports(a)
                   \/ ~HasStoragePath(LatestReport(a))
                THEN retries' = retries + 1 /\ pc' = "g_sleep"
                ELSE retries' = retries /\ pc' = "g_download"
    /\ UNCHANGED <<jobVars, mainVars, op, ret, query_id, attempts, statusLog, max_retries,
                   wait_time, df, sheetVars, authVars>>

\* df = pd.read_csv(url); return df.  A download that fails raises inside
\* the inner try and is consumed as a retry (lines 243-246, 256-258).
GetDownload ==
    /\ op = "get_report_data" /\ pc = "g_download"
    /\ LET url == LatestReport(listing) IN
       \E transfer \in {"ok", "raise"} :
          /\ calls' = Append(calls, Call("read_csv", [n |-> 0]))
          /\ listing' = [listing EXCEPT !.fetched = transfer]
          /\ IF transfer = "ok"
                THEN /\ df' = read_csv(CsvAt(url))
                     /\ ret' = "df" /\ pc' = "done"
                     /\ retries' = retries
                ELSE /\ retries' = retries + 1 /\ pc' = "g_sleep"
                     /\ UNCHANGED <<df, ret>>
    /\ UNCHANGED <<jobVars, mainVars, op, query_id, attempts, statusLog, max_retries, wait_time,
                   listLog, sheetVars, authVars>>

\* time.sleep(wait_time), then `continue` or the end of the loop body; the
\* iteration's `response` is not read again
GetSleep ==
    /\ op = "get_report_data" /\ pc = "g_sleep"
    /\ calls' = Append(calls, Call("sleep", [n |-> wait_time]))
    /\ listing' = NoListing
    /\ pc' = "g_loop"
    /\ UNCHANGED <<jobVars, mainVars, op, ret, query_id, attempts, statusLog, max_retries,
                   wait_time, retries, listLog, df, sheetVars, authVars>>

InitGet == CtlIdle /\ PollIdle /\ SheetIdle /\ AuthIdle

NextGet == GetCall \/ GetLoop \/ GetList \/ GetDownload \/ GetSleep

SpecGet == InitGet /\ [][NextGet]_vars

GetOp == op = "get_report_data"
GetDone == GetOp /\ pc = "done"
NumLists == CountApi(calls, "reports.list")

\* Every listing call made so far raised.
FollowsAlwaysError == \A i \in 1..Len(listLog) : listLog[i] = "error"

\* C3: with max_retries = 5 and every listing call raising (HttpError or any
\* other exception), get_report_data makes no 6th listing call, returns only
\* after the 5th, returns None, and every listing call but the first comes
\* directly after a sleep of wait_time.
C3_NoneOnlyAfterFiveAttempts ==
    (GetOp /\ max_retries = 5 /\ FollowsAlwaysError) =>
        /\ NumLists <= 5
        /\ pc = "done" => (ret = "None" /\ NumLists = 5 /\ ~ENABLED GetList)
        /\ ret = "None" => NumLists = 5
        /\ \A i \in 2..Len(calls) :
              calls[i].api = "reports.list" =>
                  calls[i - 1] = Call("sleep", [n |-> wait_time])

C3_Witness ==
    /\ GetDone /\ max_retries = 5 /\ FollowsAlwaysError
    /\ NumLists = 5 /\ ret = "None" /\ wait_time = 30
    /\ CountApi(calls, "sleep") = 5

\* The listing calls made so far: k empty answers, then one answer listing
\* reports that all carry the storage location p.
EmptyThenLocated(k, p) ==
    /\ Len(listLog) = k + 1
    /\ \A i \in 1..k : listLog[i] = "empty"
    /\ listing.kind = "ok" /\ listing.reports # << >>
    /\ \A i \in 1..Len(listing.reports) : listing.reports[i] = p

\* The frame holds the content of the CSV text: its first line as column
\* names, its other lines as rows, in order.
FrameHolds(f, csv) ==
    /\ f.columns = csv[1]
    /\ Len(f.rows) = Len(csv) - 1
    /\ \A i \in 1..Len(f.rows) :
          /\ Len(f.rows[i]) = Len(csv[1])
          /\ \A j \in 1..Len(csv[1]) : f.rows[i][j].text = csv[i + 1][j]

\* C4: with max_retries = 5, K < 5 empty listings followed by a listing whose
\* report carries a storage location: the listing is given up only if its
\* download raised, and when the download succeeds get_report_data has
\* returned the frame holding the content stored at that location, after
\* exactly K+1 listing calls and with no further listing call possible.
C4_ReturnsDataAfterKEmpty ==
    \A K \in 0..4 : \A p \in StoragePaths :
        (GetOp /\ max_retries = 5 /\ EmptyThenLocated(K, p)) =>
            /\ pc \in {"g_download", "g_sleep", "done"}
            /\ pc = "g_sleep" => listing.fetched = "raise"
            /\ listing.fetched = "ok" =>
                  /\ pc = "done" /\ ret = "df"
                  /\ FrameHolds(df, CsvAt(p))
                  /\ NumLists = K + 1
                  /\ ~ENABLED GetList

C4_Witness ==
    /\ GetDone /\ max_retries = 5 /\ EmptyThenLocated(4, "gs_a")
    /\ listing.fetched = "ok" /\ ret = "df" /\ Len(df.rows) = 2

----------------------------------------------------------------------------
(* update_sheet, src/fetchData.py:268-321 *)

DefaultSheetName == "DV360 Data"
SheetNames == {DefaultSheetName, "X"}

\* A worksheet is the function from the positions <<row, column>> of its
\* non-empty cells to their values; a value is a string or a number.
StringCell(t) == [kind |-> "string", text |-> t]
NumberCell(t) == [kind |-> "number", text |-> t]
NoCells == [q \in {} |-> StringCell("")]

\* Column number of "ZZ", the last column of the range "A1:ZZ".
ZZColumn == 26 * 26 + 26

\* Frames a caller passes: one or two named columns, up to MaxRows rows.
FrameColumns == <<"date", "clicks">>
FrameRow(k, w) ==
    SubSeq(<< [dtype |-> "object", text |-> IF k = 1 THEN "2024-01-01" ELSE "2024-01-02"],
              [dtype |-> "int64", text |-> IF k = 1 THEN "5" ELSE "7"] >>, 1, w)
Frames ==
    UNION {{[columns |-> SubSeq(FrameColumns, 1, w),
             rows |-> [i \in 1..n |-> FrameRow(pick[i], w)]] :
                pick \in [1..n -> {1, 2}]} :
           w \in 1..2, n \in 0..MaxRows}

\* Cells a worksheet may hold before the call: under the new data, below it,
\* in column ZZ and in the column after ZZ.
ProbePositions == {<<1, 1>>, <<MaxRows + 2, 2>>, <<1, ZZColumn>>, <<1, ZZColumn + 1>>}
PriorContents == {[q \in S |-> StringCell("old")] : S \in SUBSET ProbePositions}

\* The spreadsheets the call may find: "Sheet1" and any of the named sheets,
\* each with any of the prior contents.
Sheet1Cells == [q \in {<<1, 1>>} |-> StringCell("keep")]
Spreadsheets ==
    UNION {{[t \in {"Sheet1"} \cup T |-> IF t = "Sheet1" THEN Sheet1Cells ELSE named[t]] :
                named \in [T -> PriorContents]} :
           T \in SUBSET SheetNames}

\* values = [data.columns.values.tolist()] + data.values.tolist(): column
\* names become strings, int64 cells numbers, object cells strings.
ToCell(v) == IF v.dtype = "int64" THEN NumberCell(v.text) ELSE StringCell(v.text)
ValuesNoHeader(d) ==
    [i \in 1..Len(d.rows) |-> [j \in 1..Len(d.rows[i]) |-> ToCell(d.rows[i][j])]]
Values(d) ==
    << [j \in 1..Len(d.columns) |-> StringCell(d.columns[j])] >>
        \o [i \in 1..Len(d.rows) |-> [j \in 1..Len(d.rows[i]) |-> ToCell(d.rows[i][j])]]

\* sheet['properties']['title'] == sheet_name for some sheet of the spreadsheet
SheetExists(titles, name) == name \in titles

\* batchUpdate addSheet: a new, empty worksheet
AddSheet(d, title) == [t \in DOMAIN d \cup {title} |-> IF t = title THEN NoCells ELSE d[t]]

\* values().clear(range = title!A1:ZZ): every cell in columns A..ZZ is emptied
ClearNothing(cells) == cells
ClearRange(cells) ==
    [q \in {x \in DOMAIN cells : x[2] > ZZColumn} |-> cells[q]]

\* values().update(range = title!A1, RAW): values[i][j] goes to row i, column j
WriteValues(cells, values) ==
    LET written == UNION {{<<i, j>> : j \in 1..Len(values[i])} : i \in 1..Len(values)} IN
    [q \in DOMAIN cells \cup written |->
        IF q \in written THEN values[q[1]][q[2]] ELSE cells[q]]

UpdCall ==
    /\ op = "none" /\ pc = "idle"
    /\ \E n \in SheetNames : sheet_name' = n
    /\ \E f \in Frames : data' = f
    /\ docBefore' = doc
    /\ op' = "update_sheet"
    /\ pc' = "u_get"
    /\ UNCHANGED <<jobVars, mainVars, ret, calls, doc, pollVars, authVars>>

\* spreadsheets().get(...).execute() and the search for the title
UpdGet ==
    /\ op = "update_sheet" /\ pc = "u_get"
    /\ \E ok \in BOOLEAN :
          /\ calls' = Append(calls, Call("spreadsheets.get", [ok |-> ok]))
          /\ IF ~ok THEN pc' = "done" /\ ret' = "False"
             ELSE /\ ret' = ret
                  /\ pc' = IF SheetExists(DOMAIN doc, sheet_name)
                              THEN "u_clear" ELSE "u_add"
    /\ UNCHANGED <<jobVars, mainVars, op, doc, sheet_name, data, docBefore, pollVars, authVars>>

\* spreadsheets().batchUpdate(addSheet).execute()
UpdAdd ==
    /\ op = "update_sheet" /\ pc = "u_add"
    /\ \E ok \in BOOLEAN :
          /\ calls' = Append(calls, Call("batchUpdate.addSheet",
                                         [ok |-> ok, title |-> sheet_name]))
          /\ IF ~ok THEN pc' = "done" /\ ret' = "False" /\ doc' = doc
             ELSE pc' = "u_clear" /\ ret' = ret /\ doc' = AddSheet(doc, sheet_name)
    /\ UNCHANGED <<jobVars, mainVars, op, sheet_name, data, docBefore, pollVars, authVars>>

\* UpdClear with the spreadsheet put back as it was when the clear fails (not
\* what the code does).
UpdClearRollsBack ==
    /\ op = "update_sheet" /\ pc = "u_clear"
    /\ \E ok \in BOOLEAN :
          /\ calls' = Append(calls, Call("values.clear",
                                         [ok |-> ok, title |-> sheet_name]))
          /\ IF ~ok THEN pc' = "done" /\ ret' = "False" /\ doc' = docBefore
             ELSE /\ pc' = "u_update" /\ ret' = ret
                  /\ doc' = [doc EXCEPT ![sheet_name] = ClearRange(@)]
    /\ UNCHANGED <<jobVars, mainVars, op, sheet_name, data, docBefore, pollVars, authVars>>

\* values().clear(range=f"{sheet_name}!A1:ZZ").execute()
UpdClear ==
    /\ op = "update_sheet" /\ pc = "u_clear"
    /\ \E ok \in BOOLEAN :
          /\ calls' = Append(calls, Call("values.clear",
                                         [ok |-> ok, title |-> sheet_name]))
          /\ IF ~ok THEN pc' = "done" /\ ret' = "False" /\ doc' = doc
             ELSE /\ pc' = "u_update" /\ ret' = ret
                  /\ doc' = [doc EXCEPT ![sheet_name] = ClearRange(@)]
    /\ UNCHANGED <<jobVars, mainVars, op, sheet_name, data, docBefore, pollVars, authVars>>

\* values().update(range=f"{sheet_name}!A1", valueInputOption='RAW',
\* body={'values': values}).execute(); return True
UpdWrite ==
    /\ op = "update_sheet" /\ pc = "u_update"
    /\ \E ok \in BOOLEAN :
          /\ calls' = Append(calls, Call("values.update",
                              [ok |-> ok, title |-> sheet_name, values |-> Values(data)]))
          /\ IF ~ok THEN pc' = "done" /\ ret' = "False" /\ doc' = doc
             ELSE /\ pc' = "done" /\ ret' = "True"
                  /\ doc' = [doc EXCEPT ![sheet_name] = WriteValues(@, Values(data))]
    /\ UNCHANGED <<jobVars, mainVars, op, sheet_name, data, docBefore, pollVars, authVars>>

InitUpd ==
    /\ CtlIdle /\ PollIdle /\ AuthIdle
    /\ sheet_name = "none" /\ data = EmptyFrame
    /\ doc \in Spreadsheets /\ docBefore = NoDoc

NextUpd == UpdCall \/ UpdGet \/ UpdAdd \/ UpdClear \/ UpdWrite

SpecUpd == InitUpd /\ [][NextUpd]_vars

UpdOp == op = "update_sheet"
UpdDone == UpdOp /\ pc = "done"
AllCallsOk == \A i \in 1..Len(calls) : calls[i].arg.ok
SheetAbsentBefore == UpdOp /\ sheet_name \notin DOMAIN docBefore

IsPrefix(s, t) == Len(s) <= Len(t) /\ \A i \in 1..Len(s) : s[i] = t[i]

CreateOrder ==
    <<"spreadsheets.get", "batchUpdate.addSheet", "values.clear", "values.update">>

\* The grid is the row of column names followed by the data rows in order.
HeaderThenRows(values, d) ==
    /\ Len(values) = Len(d.rows) + 1
    /\ Len(values[1]) = Len(d.columns)
    /\ \A j \in 1..Len(d.columns) : values[1][j].text = d.columns[j]
    /\ \A i \in 1..Len(d.rows) :
          /\ Len(values[i + 1]) = Len(d.columns)
          /\ \A j \in 1..Len(d.columns) : values[i + 1][j].text = d.rows[i][j].text

\* C5: when the spreadsheet has no sheet titled sheet_name and no remote call
\* fails, the calls issued are, in this order, get-metadata, add-sheet, clear,
\* values-update (at every moment a prefix of that order, at the return all
\* four), the three later calls name sheet_name, and the grid passed to
\* values-update is the row of column names followed by the data rows in
\* their original order.
C5_CreateBeforeClearAndUpdate ==
    (SheetAbsentBefore /\ AllCallsOk) =>
        /\ IsPrefix(ApiSeq(calls), CreateOrder)
        /\ pc = "done" =>
              /\ ApiSeq(calls) = CreateOrder
              /\ \A i \in 2..4 : calls[i].arg.title = sheet_name
              /\ HeaderThenRows(calls[4].arg.values, data)

C5_Witness ==
    /\ UpdDone /\ SheetAbsentBefore /\ AllCallsOk /\ Len(calls) = 4
    /\ Len(data.rows) = 2 /\ Len(data.columns) = 2
    /\ data.rows[1] # data.rows[2]

\* Positions and texts of the header row plus data rows of a frame.
GridOf(d) == {<<i, j>> : i \in 1..(Len(d.rows) + 1), j \in 1..Len(d.columns)}
ExpectedText(d, q) ==
    IF q[1] = 1 THEN d.columns[q[2]] ELSE d.rows[q[1] - 1][q[2]].text

CellsBefore ==
    IF sheet_name \in DOMAIN docBefore THEN docBefore[sheet_name] ELSE NoCells

\* C6 as stated: after update_sheet returns True the worksheet holds exactly
\* the header row plus data rows, whatever it held before.
C6_WorksheetEqualsData ==
    (UpdDone /\ ret = "True") =>
        /\ DOMAIN doc[sheet_name] = GridOf(data)
        /\ \A q \in GridOf(data) : doc[sheet_name][q].text = ExpectedText(data, q)

\* C6 amended: after update_sheet returns True (data no wider than column
\* ZZ), the non-empty cells of the worksheet in columns A..ZZ are exactly the
\* header row plus data rows, and the cells in columns beyond ZZ are the ones
\* the worksheet held before the call, unchanged.
C6_ReplacedUpToColumnZZ ==
    (UpdDone /\ ret = "True") =>
        LET cells == doc[sheet_name] IN
        /\ {q \in DOMAIN cells : q[2] <= 702} = GridOf(data)
        /\ \A q \in GridOf(data) : cells[q].text = ExpectedText(data, q)
        /\ {q \in DOMAIN cells : q[2] > 702} = {q \in DOMAIN CellsBefore : q[2] > 702}
        /\ \A q \in DOMAIN cells : q[2] > 702 => cells[q] = CellsBefore[q]

C6_Witness ==
    /\ UpdDone /\ ret = "True"
    /\ DOMAIN CellsBefore = {<<1, 1>>, <<MaxRows + 2, 2>>, <<1, 702>>, <<1, 703>>}
    /\ <<1, 702>> \notin DOMAIN doc[sheet_name]
    /\ <<1, 703>> \in DOMAIN doc[sheet_name]

----------------------------------------------------------------------------
(* authenticate, src/fetchData.py:28-63 *)

FlowPortOther == 8080 + 1
FlowPort == 8080

\* os.getenv('CREDENTIALS_PATH'): a path, or None when the variable is unset.
CredentialPaths == {"credentials.json", "None"}

\* Credentials token.pickle may hold.
CachedCredentials == [token : {0, 1}, expired : BOOLEAN, refresh_token : BOOLEAN]
TokenFiles == {NoFile, CorruptFile} \cup {Held(c) : c \in CachedCredentials}

\* creds.valid: a token is held and it has not expired
ValidNeedsRefreshToken(c) == c.token # 0 /\ ~c.expired /\ c.refresh_token
Valid(c) == c.token # 0 /\ ~c.expired

\* creds.refresh(Request()) on success: a new token, not expired
Refreshed(c) == [c EXCEPT !.token = 2, !.expired = FALSE]

\* flow.run_local_server(port=8080) on success: a new credential
Consented == [token |-> 3, expired |-> FALSE, refresh_token |-> TRUE]

\* lines 35-36: where authenticate goes once self.creds is loaded (or not)
AuthBranchNoRefresh(s) ==
    IF s.kind = "creds" /\ Valid(s.c) THEN "a_build_dbm" ELSE "a_flow"
AuthBranch(s) ==
    IF s.kind = "creds" /\ Valid(s.c) THEN "a_build_dbm"
    ELSE IF s.kind = "creds" /\ s.c.expired /\ s.c.refresh_token THEN "a_refresh"
    ELSE "a_flow"

AuthCall ==
    /\ op = "none" /\ pc = "idle"
    /\ op' = "authenticate"
    /\ tokenBefore' = tokenFile
    /\ pc' = "a_load"
    /\ UNCHANGED <<jobVars, mainVars, ret, calls, credentials_path, creds, dbm_service, sheets_service, tokenFile,
                   pollVars, sheetVars>>

\* if os.path.exists('token.pickle'): self.creds = pickle.load(token); the
\* load raises when the file cannot be unpickled
AuthLoad ==
    /\ op = "authenticate" /\ pc = "a_load"
    /\ IF tokenFile.kind = "absent"
          THEN /\ pc' = AuthBranch(creds)
               /\ UNCHANGED <<ret, calls, creds>>
          ELSE \E ok \in {tokenFile.kind # "corrupt"} :
                  /\ calls' = Append(calls, Call("pickle.load", [ok |-> ok]))
                  /\ IF ok
                        THEN /\ creds' = tokenFile
                             /\ pc' = AuthBranch(tokenFile)
                             /\ ret' = ret
                        ELSE /\ pc' = "done" /\ ret' = "False"
                             /\ creds' = creds
    /\ UNCHANGED <<jobVars, mainVars, op, credentials_path, dbm_service, sheets_service, tokenFile, tokenBefore,
                   pollVars, sheetVars>>

\* AuthRefresh going on to the cache write when the refresh raised (not what
\* the code does).
AuthRefreshWritesAnyway ==
    /\ op = "authenticate" /\ pc = "a_refresh"
    /\ \E ok \in BOOLEAN :
          /\ calls' = Append(calls, Call("creds.refresh", [ok |-> ok]))
          /\ creds' = IF ok THEN Held(Refreshed(creds.c)) ELSE creds
          /\ pc' = "a_write" /\ ret' = ret
    /\ UNCHANGED <<jobVars, mainVars, op, credentials_path, dbm_service, sheets_service, tokenFile, tokenBefore,
                   pollVars, sheetVars>>

\* self.creds.refresh(Request())
AuthRefresh ==
    /\ op = "authenticate" /\ pc = "a_refresh"
    /\ \E ok \in BOOLEAN :
          /\ calls' = Append(calls, Call("creds.refresh", [ok |-> ok]))
          /\ IF ok
                THEN creds' = Held(Refreshed(creds.c)) /\ pc' = "a_write" /\ ret' = ret
                ELSE creds' = creds /\ pc' = "done" /\ ret' = "False"
    /\ UNCHANGED <<jobVars, mainVars, op, credentials_path, dbm_service, sheets_service, tokenFile, tokenBefore,
                   pollVars, sheetVars>>

\* flow = InstalledAppFlow.from_client_secrets_file(...)
AuthFlowSecrets ==
    /\ op = "authenticate" /\ pc = "a_flow"
    /\ \E ok \in (IF credentials_path = "None" THEN {FALSE} ELSE BOOLEAN) :
          /\ calls' = Append(calls, Call("flow.from_client_secrets_file", [ok |-> ok]))
          /\ IF ok THEN pc' = "a_consent" /\ ret' = ret
                   ELSE pc' = "done" /\ ret' = "False"
    /\ UNCHANGED <<jobVars, mainVars, op, credentials_path, creds, dbm_service, sheets_service, tokenFile,
                   tokenBefore, pollVars, sheetVars>>

\* self.creds = flow.run_local_server(port=8080)
AuthFlowConsent ==
    /\ op = "authenticate" /\ pc = "a_consent"
    /\ \E ok \in BOOLEAN :
          /\ calls' = Append(calls, Call("flow.run_local_server",
                                         [ok |-> ok, port |-> FlowPort]))
          /\ IF ok
                THEN creds' = Held(Consented) /\ pc' = "a_write" /\ ret' = ret
                ELSE creds' = creds /\ pc' = "done" /\ ret' = "False"
    /\ UNCHANGED <<jobVars, mainVars, op, credentials_path, dbm_service, sheets_service, tokenFile, tokenBefore,
                   pollVars, sheetVars>>

\* with open('token.pickle', 'wb') as token: pickle.dump(self.creds, token).
\* open may raise and leave the file alone; it truncates the file, so a dump
\* that raises leaves an unreadable file.
AuthWrite ==
    /\ op = "authenticate" /\ pc = "a_write"
    /\ \E out \in {"ok", "open_raises", "dump_raises"} :
          /\ calls' = Append(calls, Call("pickle.dump", [ok |-> (out = "ok")]))
          /\ tokenFile' = CASE out = "ok" -> creds
                             [] out = "open_raises" -> tokenFile
                             [] out = "dump_raises" -> CorruptFile
          /\ IF out = "ok" THEN pc' = "a_build_dbm" /\ ret' = ret
                           ELSE pc' = "done" /\ ret' = "False"
    /\ UNCHANGED <<jobVars, mainVars, op, credentials_path, creds, dbm_service, sheets_service, tokenBefore,
                   pollVars, sheetVars>>

\* self.dbm_service = build('doubleclickbidmanager', 'v2', credentials=self.creds)
AuthBuildDbm ==
    /\ op = "authenticate" /\ pc = "a_build_dbm"
    /\ \E ok \in BOOLEAN :
          /\ calls' = Append(calls, Call("build.doubleclickbidmanager", [ok |-> ok]))
          /\ IF ok
                THEN dbm_service' = "built" /\ pc' = "a_build_sheets" /\ ret' = ret
                ELSE dbm_service' = dbm_service /\ pc' = "done" /\ ret' = "False"
    /\ UNCHANGED <<jobVars, mainVars, op, credentials_path, creds, sheets_service, tokenFile, tokenBefore, pollVars,
                   sheetVars>>

\* self.sheets_service = build('sheets', 'v4', credentials=self.creds); return True
AuthBuildSheets ==
    /\ op = "authenticate" /\ pc = "a_build_sheets"
    /\ \E ok \in BOOLEAN :
          /\ calls' = Append(calls, Call("build.sheets", [ok |-> ok]))
          /\ IF ok
                THEN sheets_service' = "built" /\ pc' = "done" /\ ret' = "True"
                ELSE sheets_service' = sheets_service /\ pc' = "done" /\ ret' = "False"
    /\ UNCHANGED <<jobVars, mainVars, op, credentials_path, creds, dbm_service, tokenFile, tokenBefore, pollVars,
                   sheetVars>>

\* A newly constructed fetcher (self.creds = None) and any token.pickle.
InitAuth ==
    /\ CtlIdle /\ PollIdle /\ SheetIdle
    /\ credentials_path \in CredentialPaths
    /\ creds = NoCreds /\ dbm_service = "unset" /\ sheets_service = "unset"
    /\ tokenFile \in TokenFiles /\ tokenBefore = NoFile

NextAuth ==
    \/ AuthCall \/ AuthLoad \/ AuthRefresh \/ AuthFlowSecrets \/ AuthFlowConsent
    \/ AuthWrite \/ AuthBuildDbm \/ AuthBuildSheets

SpecAuth == InitAuth /\ [][NextAuth]_vars

AuthOp == op = "authenticate"
AuthDone == AuthOp /\ pc = "done"

Issued(api) == \E i \in 1..Len(calls) : calls[i].api = api
Succeeded(api) == \E i \in 1..Len(calls) : calls[i].api = api /\ calls[i].arg.ok
Failed(api) == \E i \in 1..Len(calls) : calls[i].api = api /\ ~calls[i].arg.ok
FlowInvoked ==
    Issued("flow.from_client_secrets_file") \/ Issued("flow.run_local_server")

\* token.pickle held, when authenticate was called, ...
CachedValid ==
    tokenBefore.kind = "creds" /\ tokenBefore.c.token # 0 /\ ~tokenBefore.c.expired
CachedRefreshable ==
    /\ tokenBefore.kind = "creds"
    /\ tokenBefore.c.expired /\ tokenBefore.c.refresh_token
CacheMissing == tokenBefore.kind = "absent"

\* C7 as stated: whenever the cache holds a valid credential, authenticate
\* returns True, without the interactive flow and without a refresh.
C7_ValidCacheReturnsTrue ==
    (AuthDone /\ CachedValid) =>
        ret = "True" /\ ~FlowInvoked /\ ~Issued("creds.refresh")

\* C7 amended: whenever the cache holds a valid credential, authenticate
\* invokes neither the interactive flow nor a refresh and does not write the
\* cache; it returns True unless constructing a service client raises, and
\* False in that case.
C7_ValidCacheNoFlowNoRefresh ==
    (AuthOp /\ CachedValid) =>
        /\ ~FlowInvoked /\ ~Issued("creds.refresh") /\ ~Issued("pickle.dump")
        /\ tokenFile = tokenBefore
        /\ pc = "done" =>
              /\ ret = "True" <=> AllCallsOk
              /\ ret = "False" <=>
                    \/ Failed("build.doubleclickbidmanager")
                    \/ Failed("build.sheets")
              /\ ret = "True" => (dbm_service = "built" /\ sheets_service = "built"
                                   /\ creds = tokenBefore)

C7_Witness ==
    /\ AuthDone /\ CachedValid /\ ret = "True" /\ Len(calls) = 3
    /\ ~tokenBefore.c.refresh_token

\* C8 as stated: whenever the cache holds an expired credential with a
\* refresh token and the refresh succeeds, authenticate refreshes it (no
\* interactive flow), the cache afterwards holds the refreshed credential and
\* differs from before, and authenticate returns True.
C8_RefreshPersistsAndReturnsTrue ==
    (AuthDone /\ CachedRefreshable /\ Succeeded("creds.refresh")) =>
        /\ ~FlowInvoked
        /\ tokenFile = creds /\ tokenFile # tokenBefore
        /\ ret = "True"

\* C8 amended: whenever the cache holds an expired credential with a refresh
\* token, authenticate, once it has read the cache, refreshes the credential
\* and never invokes the interactive flow; when the refresh succeeds it next
\* writes the cache, and unless that write raises the cache then holds the
\* refreshed (valid) credential and differs from before; authenticate returns
\* True unless the cache write or a client construction raises, and False in
\* that case.
C8_RefreshPersistsUnlessWriteFails ==
    (AuthOp /\ CachedRefreshable) =>
        /\ ~FlowInvoked
        /\ Succeeded("pickle.load") =>
              (pc = "a_refresh" \/ (Len(calls) >= 2 /\ calls[2].api = "creds.refresh"))
        /\ Succeeded("creds.refresh") =>
              /\ pc = "a_write" \/ (Len(calls) >= 3 /\ calls[3].api = "pickle.dump")
              /\ creds.kind = "creds" /\ creds.c.token # 0 /\ ~creds.c.expired
              /\ Succeeded("pickle.dump") =>
                    (tokenFile = creds /\ tokenFile # tokenBefore)
              /\ pc = "done" =>
                    /\ ret = "True" <=> AllCallsOk
                    /\ ret = "False" <=>
                          \/ Failed("pickle.dump")
                          \/ Failed("build.doubleclickbidmanager")
                          \/ Failed("build.sheets")

C8_Witness ==
    /\ AuthDone /\ CachedRefreshable /\ Succeeded("creds.refresh")
    /\ ret = "True" /\ tokenFile = creds /\ tokenFile # tokenBefore

\* C9 as stated: when the refresh of an expired cached credential fails, or
\* when no cache exists, authenticate runs the interactive flow.
C9_FallsBackToFlow ==
    (AuthDone /\ (Failed("creds.refresh") \/ CacheMissing)) => FlowInvoked

\* C9 amended: when no cache exists, authenticate (on a fetcher holding no
\* credential) starts the interactive flow first of all and, once the client
\* secrets are read, runs it on port 8080; when the refresh of an expired
\* cached credential raises, authenticate returns False at once without
\* invoking the interactive flow.
C9_FlowOnlyWhenCacheMissing ==
    /\ (AuthOp /\ CacheMissing /\ pc # "a_load") =>
          /\ pc = "a_flow" \/ (Len(calls) >= 1 /\ calls[1].api = "flow.from_client_secrets_file")
          /\ Succeeded("flow.from_client_secrets_file") =>
                \/ pc = "a_consent"
                \/ /\ Len(calls) >= 2
                   /\ calls[2].api = "flow.run_local_server"
                   /\ calls[2].arg.port = 8080
          /\ pc = "done" => FlowInvoked
    /\ (AuthOp /\ Failed("creds.refresh")) =>
          /\ pc = "done" /\ ret = "False"
          /\ ~FlowInvoked /\ ~Issued("pickle.dump")
          /\ calls[Len(calls)].api = "creds.refresh"

C9_Witness ==
    /\ AuthDone /\ CacheMissing /\ ret = "True"
    /\ Succeeded("flow.run_local_server") /\ tokenFile = Held(Consented)

\* C10: whenever authenticate returns False, the fetcher holds no credential
\* and neither the reporting nor the spreadsheet service client.
C10_FailureLeavesNoState ==
    (AuthDone /\ ret = "False") =>
        /\ creds = NoCreds
        /\ dbm_service = "unset"
        /\ sheets_service = "unset"

----------------------------------------------------------------------------
(* create_query, src/fetchData.py:65-158 *)

\* os.getenv('ADVERTISER_ID'): an identifier, or None when the variable is unset.
AdvertiserIds == {"adv1", "None"}

\* What queries().create(body).execute() can answer: it raises HttpError or
\* another exception, or returns a response with or without a queryId.
CreateAnswers ==
    {[kind |-> k, queryId |-> "None"] : k \in {"http_error", "error"}}
        \cup {[kind |-> "ok", queryId |-> q] : q \in QueryIds \cup {"None"}}

\* What the read-back queries().get(queryId).execute() can answer: it raises,
\* or returns a query with a metadata title, with metadata but no title, or
\* without metadata.  A read-back of queryId None can only raise.
ReadBackAnswers(q) ==
    IF q = "None" THEN {"http_error", "error"}
    ELSE {"http_error", "error", "titled", "no_title", "no_metadata"}

\* query["metadata"]["title"] raises KeyError unless the title is there
ReadBackPrints(a) == a = "titled"

CreateCall ==
    /\ op = "none" /\ pc = "idle"
    /\ \E a \in AdvertiserIds : advertiser_id' = a
    /\ op' = "create_query"
    /\ pc' = "c_create"
    /\ UNCHANGED <<ret, calls, response, report_url, reportFile, mainVars,
                   pollVars, sheetVars, authVars>>

\* response = self.dbm_service.queries().create(body=query_obj).execute()
CreateSubmit ==
    /\ op = "create_query" /\ pc = "c_create"
    /\ \E a \in CreateAnswers :
          /\ calls' = Append(calls, Call("queries.create",
                                 [ok |-> (a.kind = "ok"), advertiser |-> advertiser_id]))
          /\ response' = a
          /\ IF a.kind = "ok" THEN pc' = "c_readback" /\ ret' = ret
                              ELSE pc' = "done" /\ ret' = "None"
    /\ UNCHANGED <<op, advertiser_id, report_url, reportFile, mainVars,
                   pollVars, sheetVars, authVars>>

\* queryId = response.get('queryId'); query = ...get(queryId=queryId).execute();
\* print(... query["metadata"]["title"] ...); return response.get('queryId').
\* Every exception on the way is caught at lines 153-158 and returns None.
CreateReadBack ==
    /\ op = "create_query" /\ pc = "c_readback"
    /\ \E a \in ReadBackAnswers(response.queryId) :
          /\ calls' = Append(calls, Call("queries.get",
                                 [ok |-> (a \notin {"http_error", "error"}), answer |-> a]))
          /\ pc' = "done"
          /\ ret' = IF ReadBackPrints(a) THEN response.queryId ELSE "None"
    /\ UNCHANGED <<op, advertiser_id, response, report_url, reportFile,
                   mainVars, pollVars, sheetVars, authVars>>

NextCreate == CreateCall \/ CreateSubmit \/ CreateReadBack

----------------------------------------------------------------------------
(* fetch_report, src/fetchData.py:323-334 *)

\* What queries().get(queryId).execute() can answer to fetch_report: it
\* raises, or returns a query without metadata, with metadata but no
\* googleCloudStoragePathForLatestReport, or with such a path.
FetchAnswers == {"raise", "no_metadata", "no_path"} \cup StoragePaths

FetchCall ==
    /\ op = "none" /\ pc = "idle"
    /\ \E q \in QueryIds : query_id' = q
    /\ op' = "fetch_report"
    /\ pc' = "f_get"
    /\ UNCHANGED <<ret, calls, attempts, statusLog, max_retries, wait_time,
                   retries, listLog, listing, df, jobVars, mainVars, sheetVars,
                   authVars>>

\* query_results = ...get(queryId=query_id).execute();
\* report_url = query_results["metadata"].get("googleCloudStoragePathForLatestReport").
\* There is no try: an exception of the call, or the KeyError of a missing
\* metadata, leaves fetch_report.
FetchGet ==
    /\ op = "fetch_report" /\ pc = "f_get"
    /\ \E a \in FetchAnswers :
          /\ calls' = Append(calls, Call("queries.get",
                                 [ok |-> (a # "raise"), answer |-> a]))
          /\ CASE a \in {"raise", "no_metadata"} ->
                     pc' = "done" /\ ret' = "raised" /\ report_url' = report_url
               [] a = "no_path" ->
                     pc' = "done" /\ ret' = "None" /\ report_url' = report_url
               [] OTHER ->
                     pc' = "f_download" /\ ret' = ret /\ report_url' = a
    /\ UNCHANGED <<op, advertiser_id, response, reportFile, mainVars, pollVars,
                   sheetVars, authVars>>

\* response = requests.get(report_url)
FetchDownload ==
    /\ op = "fetch_report" /\ pc = "f_download"
    /\ \E ok \in BOOLEAN :
          /\ calls' = Append(calls, Call("requests.get", [ok |-> ok]))
          /\ IF ok THEN pc' = "f_write" /\ ret' = ret
                   ELSE pc' = "done" /\ ret' = "raised"
    /\ UNCHANGED <<op, jobVars, mainVars, pollVars, sheetVars, authVars>>

\* with open("campaign_report.csv", "wb") as file: file.write(response.content);
\* open may raise and leave the file alone; it truncates the file, so a write
\* that raises leaves it cut short.  The method ends without a return value.
FetchWrite ==
    /\ op = "fetch_report" /\ pc = "f_write"
    /\ \E out \in {"ok", "open_raises", "write_raises"} :
          /\ calls' = Append(calls, Call("file.write", [ok |-> (out = "ok")]))
          /\ reportFile' = CASE out = "ok" -> report_url
                              [] out = "open_raises" -> reportFile
                              [] out = "write_raises" -> "truncated"
          /\ pc' = "done"
          /\ ret' = IF out = "ok" THEN "None" ELSE "raised"
    /\ UNCHANGED <<op, advertiser_id, response, report_url, mainVars, pollVars,
                   sheetVars, authVars>>

NextFetch == FetchCall \/ FetchGet \/ FetchDownload \/ FetchWrite

----------------------------------------------------------------------------
(* The methods that work on one query: create_query, wait_for_report,
   fetch_report *)

InitQuery == CtlIdle /\ PollIdle /\ SheetIdle /\ AuthIdle

NextQuery == NextCreate \/ NextWait \/ NextFetch

SpecQuery == InitQuery /\ [][NextQuery]_vars

CreateDone == op = "create_query" /\ pc = "done"

\* C11: whenever the submission succeeded and its response carries a job
\* identifier, create_query returns that identifier, whatever the read-back
\* answered.
C11_ReturnsIdWhateverReadBack ==
    (CreateDone /\ response.kind = "ok" /\ response.queryId # "None") =>
        ret = response.queryId

\* A remote call made by the method in progress has failed.
RemoteCallFailed ==
    CASE op = "wait_for_report" ->
             statusLog # << >> /\ statusLog[Len(statusLog)] = "raise"
      [] op \in {"create_query", "fetch_report"} ->
             \E i \in 1..Len(calls) : ~calls[i].arg.ok
      [] OTHER -> FALSE

\* C13: whenever a remote call inside a step operation fails, the operation
\* ends by returning False or None: no exception leaves it.
C13_FailuresBecomeSignals ==
    (pc = "done" /\ RemoteCallFailed) => ret \in {"False", "None"}

----------------------------------------------------------------------------
(* main, src/fetchData.py:337-375 *)

\* query_id = '1356166266'
MainQueryId == "1356166266"

\* The environments main may start in: every variable set, or one missing.
Environments == {ConfigNames} \cup {ConfigNames \ {n} : n \in ConfigNames}

Invoked(name) == [name |-> name, result |-> "pending"]
Returned(log, result) == [log EXCEPT ![Len(log)].result = result]

\* lines 341-347: the four os.getenv reads and DV360DataFetcher(CREDENTIALS_PATH)
MainConstruct ==
    /\ mpc = "m_init"
    /\ credentials_path' =
          IF "CREDENTIALS_PATH" \in environ THEN "credentials.json" ELSE "None"
    /\ creds' = NoCreds
    /\ mpc' = "m_authenticate"
    /\ UNCHANGED <<op, pc, ret, calls, dbm_service, sheets_service, tokenFile,
                   tokenBefore, environ, steps, jobVars, pollVars, sheetVars>>

\* line 352: fetcher.authenticate() is called
MainAuthenticate ==
    /\ mpc = "m_authenticate"
    /\ op' = "authenticate" /\ pc' = "a_load"
    /\ tokenBefore' = tokenFile
    /\ steps' = Append(steps, Invoked("authenticate"))
    /\ mpc' = "m_auth"
    /\ UNCHANGED <<ret, calls, credentials_path, creds, dbm_service,
                   sheets_service, tokenFile, environ, jobVars, pollVars,
                   sheetVars>>

\* lines 352-374: authenticate has returned; on False main returns, otherwise
\* it goes on to fetcher.get_report_data(query_id) with the literal query_id
\* (create_query and wait_for_report are commented out)
MainAfterAuth ==
    /\ mpc = "m_auth" /\ op = "authenticate" /\ pc = "done"
    /\ IF ret = "False"
          THEN /\ steps' = Returned(steps, "failed")
               /\ mpc' = "m_exit" /\ op' = "none" /\ pc' = "idle"
               /\ UNCHANGED <<ret, calls, pollVars>>
          ELSE /\ steps' = Append(Returned(steps, "ok"), Invoked("get_report_data"))
               /\ mpc' = "m_get"
               /\ op' = "get_report_data" /\ pc' = "g_loop"
               /\ query_id' = MainQueryId
               /\ max_retries' = DefaultMaxRetries
               /\ wait_time' = DefaultWaitTime
               /\ retries' = 0
               /\ ret' = "unset" /\ calls' = << >>
               /\ UNCHANGED <<attempts, statusLog, listLog, listing, df>>
    /\ UNCHANGED <<environ, jobVars, sheetVars, authVars>>

\* lines 374-375: get_report_data has returned, data is not looked at, and
\* fetcher.fetch_report(query_id) is called
MainAfterGet ==
    /\ mpc = "m_get" /\ op = "get_report_data" /\ pc = "done"
    /\ steps' = Append(Returned(steps, IF ret = "df" THEN "ok" ELSE "failed"),
                       Invoked("fetch_report"))
    /\ mpc' = "m_fetch"
    /\ op' = "fetch_report" /\ pc' = "f_get"
    /\ ret' = "unset" /\ calls' = << >>
    /\ retries' = 0 /\ listLog' = << >> /\ listing' = NoListing
    /\ UNCHANGED <<query_id, attempts, statusLog, max_retries, wait_time, df,
                   environ, jobVars, sheetVars, authVars>>

\* line 375: fetch_report has returned, or its exception leaves main
MainAfterFetch ==
    /\ mpc = "m_fetch" /\ op = "fetch_report" /\ pc = "done"
    /\ steps' = Returned(steps, IF ret = "raised" THEN "raised" ELSE "ok")
    /\ mpc' = "m_exit" /\ op' = "none" /\ pc' = "idle"
    /\ UNCHANGED <<ret, calls, environ, jobVars, pollVars, sheetVars, authVars>>

InitMain ==
    /\ op = "none" /\ pc = "idle" /\ ret = "unset" /\ calls = << >>
    /\ JobIdle /\ PollIdle /\ SheetIdle
    /\ mpc = "m_init" /\ environ \in Environments /\ steps = << >>
    /\ credentials_path = "None"
    /\ creds = NoCreds /\ dbm_service = "unset" /\ sheets_service = "unset"
    /\ tokenFile \in TokenFiles /\ tokenBefore = NoFile

NextMain ==
    \/ MainConstruct \/ MainAuthenticate \/ MainAfterAuth \/ MainAfterGet
    \/ MainAfterFetch
    \/ AuthLoad \/ AuthRefresh \/ AuthFlowSecrets \/ AuthFlowConsent \/ AuthWrite
    \/ AuthBuildDbm \/ AuthBuildSheets
    \/ GetLoop \/ GetList \/ GetDownload \/ GetSleep
    \/ FetchGet \/ FetchDownload \/ FetchWrite

SpecMain == InitMain /\ [][NextMain]_vars

\* Place of a step in the order authenticate, submit, poll, retrieve.
StepRank(name) ==
    CASE name = "authenticate" -> 1
      [] name = "create_query" -> 2
      [] name = "wait_for_report" -> 3
      [] OTHER -> 4

\* C12: in every run of main no step is invoked after an earlier step has
\* failed, and the steps are invoked in the order authenticate, submit, poll,
\* retrieve.
C12_NoStepAfterFailure ==
    \A i, j \in 1..Len(steps) :
        i < j => /\ steps[i].result = "ok"
                 /\ StepRank(steps[i].name) <= StepRank(steps[j].name)

\* C14: when a required configuration value is absent from the environment,
\* main invokes no step and issues no call.
C14_MissingConfigStopsAtStartup ==
    (mpc # "off" /\ environ # ConfigNames) =>
        steps = << >> /\ calls = << >> /\ op = "none"

----------------------------------------------------------------------------
(* Further properties of wait_for_report, get_report_data, update_sheet and
   authenticate *)

\* C15: when the k-th status query (1 <= k <= 10) raises, wait_for_report has
\* returned False right after that query: k queries and k-1 sleeps were made,
\* the query is the last call, and neither a sleep nor a query can follow.
C15_RaiseReturnsFalseAtOnce ==
    \A k \in 1..10 :
        (op = "wait_for_report" /\ Len(statusLog) = k /\ statusLog[k] = "raise") =>
            /\ pc = "done" /\ ret = "False"
            /\ NumQueries = k /\ NumSleeps = k - 1
            /\ calls[Len(calls)].api = "queries.get"
            /\ ~ENABLED WaitSleep /\ ~ENABLED WaitLoop

C15_Witness ==
    /\ WaitDone /\ Len(statusLog) = 4 /\ statusLog[4] = "raise"
    /\ ret = "False" /\ NumQueries = 4 /\ NumSleeps = 3

\* The latest status response carries no running flag (or no metadata).
FlagAbsent ==
    statusLog # << >> /\ statusLog[Len(statusLog)] \in {"no_metadata", "no_flag"}

\* C16: wait_for_report returns True only when the latest status response
\* reports running=false; after a response without the flag (or without
\* metadata) it has not returned True: it sleeps and goes to the next attempt,
\* or has timed out after the 10th query.
C16_ReadyOnlyOnPositiveNotRunning ==
    op = "wait_for_report" =>
        /\ (pc = "done" /\ ret = "True") =>
              statusLog[Len(statusLog)] = "running_false"
        /\ FlagAbsent =>
              \/ pc \in {"w_sleep", "w_loop", "w_query"}
              \/ pc = "done" /\ ret = "False" /\ NumQueries = 10

\* C17: while the answer of a listing call that listed reports is held, only
\* its last report decides: when that report has a storage location the data
\* is downloaded from it (the frame returned holds the content stored there,
\* and the listing is given up only when the download raised); when it has
\* none the attempt is consumed as a retry and nothing is downloaded, whatever
\* the earlier reports of the listing carry.
C17_OnlyLastReportInspected ==
    (GetOp /\ listing.kind = "ok" /\ listing.reports # << >>) =>
        LET last == listing.reports[Len(listing.reports)] IN
        /\ last \in StoragePaths =>
              /\ pc \in {"g_download", "g_sleep", "done"}
              /\ pc = "g_sleep" => listing.fetched = "raise"
              /\ listing.fetched = "ok" =>
                    (GetDone /\ ret = "df" /\ FrameHolds(df, CsvAt(last)))
        /\ last \notin StoragePaths =>
              /\ pc = "g_sleep" /\ listing.fetched = "none"
              /\ ret = "unset" /\ df = EmptyFrame
              /\ calls[Len(calls)].api = "reports.list"
              /\ retries = Len(listLog)

C17_Witness ==
    /\ GetOp /\ pc = "g_sleep"
    /\ listing.kind = "ok" /\ listing.reports = <<"gs_a", "no_path">>
    /\ listing.fetched = "none" /\ ret = "unset"

\* A call of the given name was issued and succeeded.
CallOk(api) == \E i \in 1..Len(calls) : calls[i].api = api /\ calls[i].arg.ok

\* C18: update_sheet returns True only when every call it issued succeeded,
\* the values-update among them; when a call fails it has returned False and
\* that call is the last one issued; and what the calls that succeeded did
\* stays: a sheet that was added is in the spreadsheet, a range that was
\* cleared (and not written since) is empty, and no other sheet has changed.
C18_FalseOnFailureNoRollback ==
    UpdOp =>
        /\ (pc = "done" /\ ret = "True") => (AllCallsOk /\ CallOk("values.update"))
        /\ ~AllCallsOk =>
              /\ pc = "done" /\ ret = "False"
              /\ \A i \in 1..(Len(calls) - 1) : calls[i].arg.ok
              /\ ~ENABLED NextUpd
        /\ CallOk("batchUpdate.addSheet") => sheet_name \in DOMAIN doc
        /\ (CallOk("values.clear") /\ ~CallOk("values.update")) =>
              /\ sheet_name \in DOMAIN doc
              /\ \A q \in DOMAIN doc[sheet_name] : q[2] > 702
        /\ \A t \in DOMAIN docBefore : t # sheet_name =>
              (t \in DOMAIN doc /\ doc[t] = docBefore[t])

C18_Witness ==
    /\ UpdDone /\ ret = "False" /\ SheetAbsentBefore
    /\ CallOk("batchUpdate.addSheet") /\ CallOk("values.clear")
    /\ ~calls[Len(calls)].arg.ok /\ calls[Len(calls)].api = "values.update"
    /\ sheet_name \in DOMAIN doc

RefreshOrFlowSucceeded ==
    Succeeded("creds.refresh") \/ Succeeded("flow.run_local_server")
RefreshOrFlowFailed ==
    \/ Failed("creds.refresh") \/ Failed("flow.from_client_secrets_file")
    \/ Failed("flow.run_local_server")

\* C19 as stated: at most one cache write per call; at the return the cache
\* has been written (and holds the credential of the fetcher) exactly when a
\* refresh or the interactive flow succeeded; it is unchanged when the cached
\* credential was valid and when the refresh or the flow failed.
C19_WrittenExactlyOnRefreshOrFlow ==
    AuthDone =>
        /\ CountApi(calls, "pickle.dump") <= 1
        /\ (Succeeded("pickle.dump") /\ tokenFile = creds) <=> RefreshOrFlowSucceeded
        /\ CachedValid => tokenFile = tokenBefore
        /\ RefreshOrFlowFailed => tokenFile = tokenBefore

\* C19 amended: the cache write is attempted at most once per call, and it is
\* attempted exactly when a refresh or the interactive flow succeeded (it is
\* the next call then); unless that write raises, the cache afterwards holds
\* the new credential of the fetcher, and when it raises authenticate returns
\* False with the cache as before or unreadable; no write is attempted, and
\* the cache is unchanged, when the cached credential was valid and when the
\* refresh or the flow failed.
C19_WriteAttemptedExactlyOnRefreshOrFlow ==
    AuthOp =>
        /\ CountApi(calls, "pickle.dump") <= 1
        /\ Issued("pickle.dump") => RefreshOrFlowSucceeded
        /\ RefreshOrFlowSucceeded => (pc = "a_write" \/ Issued("pickle.dump"))
        /\ Succeeded("pickle.dump") =>
              (tokenFile = creds /\ tokenFile.kind = "creds" /\ tokenFile.c.token \in {2, 3})
        /\ Failed("pickle.dump") =>
              /\ pc = "done" /\ ret = "False"
              /\ tokenFile = tokenBefore \/ tokenFile.kind = "corrupt"
        /\ ~Issued("pickle.dump") => tokenFile = tokenBefore
        /\ CachedValid => ~Issued("pickle.dump")
        /\ RefreshOrFlowFailed =>
              (pc = "done" /\ ret = "False" /\ ~Issued("pickle.dump"))

C19_Witness ==
    /\ AuthDone /\ Succeeded("flow.run_local_server")
    /\ CountApi(calls, "pickle.dump") = 1 /\ Succeeded("pickle.dump")
    /\ tokenFile = Held(Consented) /\ tokenFile # tokenBefore
    /\ tokenBefore.kind = "creds"

----------------------------------------------------------------------------
(* Termination of the two polling loops *)

\* One call of wait_for_report or of get_report_data, which keeps running
\* until it returns: the interpreter always takes the next step of the method.
NextPoll == NextWait \/ NextGet

SpecPollFair == InitWait /\ [][NextPoll]_vars /\ WF_vars(NextPoll)

\* The number of listing calls get_report_data(max_retries = m) may make.
ListBudget(m) == IF m <= 0 THEN 0 ELSE m

\* C20: whatever the remote services answer, a call of wait_for_report or of
\* get_report_data returns; wait_for_report makes at most 10 status queries,
\* get_report_data(max_retries = M) at most M listing calls, and with M <= 0
\* it makes none and returns None.
C20_PollingLoopsTerminate ==
    /\ [](op = "wait_for_report" => NumQueries <= 10)
    /\ [](GetOp => NumLists <= ListBudget(max_retries))
    /\ []((GetDone /\ max_retries <= 0) => (NumLists = 0 /\ ret = "None"))
    /\ (op \in {"wait_for_report", "get_report_data"}) ~> (pc = "done")

C20_Witness ==
    \/ WaitDone /\ NumQueries = 10 /\ ret = "False"
    \/ GetDone /\ max_retries = 5 /\ NumLists = 5 /\ ret = "None"
    \/ GetDone /\ max_retries = -1 /\ NumLists = 0 /\ ret = "None"

====
